---- MODULE Spec2Model ----
(***************************************************************************)
(* The nightly performance report generator                                *)
(* (tools/nightly/generate_nightly_perf_excel.py) as a state machine: one  *)
(* invocation of generate_excel_report over an input directory, step by    *)
(* step (collect, order, stamp build metadata, write the summary sheet,    *)
(* format, highlight, write the raw sheet, save).                          *)
(*                                                                         *)
(* Python values are tagged records [k, n, s]:                             *)
(*   k = "null" | "bool" | "int" | "float" | "nan" | "inf" | "str"         *)
(*   n = the number (bool: 0/1, int: the integer, float: ticks of 5e-10)   *)
(*   s = the characters of a string, as a sequence of code points          *)
(* A dict is a function whose DOMAIN is its key set.                       *)
(***************************************************************************)
EXTENDS Integers, Sequences, FiniteSets, TLC

VARIABLES
    dir_exists,       \* os.path.isdir(input_dir)
    dir,              \* the directory's entries: a set of [name, kind, data]
    clock,            \* seconds of datetime.utcnow() past 2026-01-01 00:00:00
    pc,               \* the position of generate_excel_report
    exc,              \* the exception that ended the run ("" while none)
    summary_columns,  \* the summary column schema
    pending,          \* the entries _iter_json_records has still to visit
    objs,             \* the record dicts, by identity (index = order of creation)
    records,          \* the list _collect_records builds (of identities)
    sorted_records,   \* the list _sort_records_for_summary returns
    meta,             \* the (commit_sha, build_id, build_url) the caller supplied
    ws_summary,       \* the "summary" worksheet
    ws_raw,           \* the "raw" worksheet
    hl,               \* _apply_benchmark_change_highlight: its position i
    out,              \* the output: [parent, file, saves (of this invocation)]
    call              \* a single call of a pure function: [fn, a, b, done, res]

vars == <<dir_exists, dir, clock, pc, exc, summary_columns, pending, objs, records,
          sorted_records, meta, ws_summary, ws_raw, hl, out, call>>

(***************************************************************************)
(* Bounds of the model.                                                    *)
(***************************************************************************)
MaxFiles == 4
MaxClock == 1

(***************************************************************************)
(* Values.                                                                 *)
(***************************************************************************)
\* 1e-9 (line 260) in ticks of 5e-10, the unit of a float's n
EpsTicks == 2
TicksPerUnit == EpsTicks * 1000000000

Val(k, n, s) == [k |-> k, n |-> n, s |-> s]
Null == Val("null", 0, <<>>)
BoolV(b) == Val("bool", IF b THEN 1 ELSE 0, <<>>)
IntV(i) == Val("int", i, <<>>)
FloatV(t) == Val("float", t, <<>>)
NaN == Val("nan", 0, <<>>)
Inf == Val("inf", 1, <<>>)
StrV(s) == Val("str", 0, s)

IsNumber(v) == v.k \in {"bool", "int", "float", "nan", "inf"}
\* isinstance(v, float)
IsFloat(v) == v.k \in {"float", "nan", "inf"}
\* isinstance(v, int): bool is a subclass of int
IsInt(v) == v.k \in {"bool", "int"}

\* Python truthiness of a scalar: None, "", 0, 0.0 and False are falsy
Truthy(v) ==
    CASE v.k = "null" -> FALSE
      [] v.k = "str" -> v.s # <<>>
      [] v.k \in {"bool", "int", "float"} -> v.n # 0
      [] OTHER -> TRUE

\* x or ""
OrEmpty(v) == IF Truthy(v) THEN v ELSE StrV(<<>>)

\* str < str: by code point, a proper prefix first
RECURSIVE LexLess(_, _)
LexLess(s, t) ==
    IF t = <<>> THEN FALSE
    ELSE IF s = <<>> THEN TRUE
    ELSE IF Head(s) # Head(t) THEN Head(s) < Head(t)
    ELSE LexLess(Tail(s), Tail(t))

\* a == b for two finite numbers (bool, int, float)
FiniteEq(a, b) ==
    IF IsInt(a) = IsInt(b) THEN a.n = b.n
    ELSE LET i == IF IsInt(a) THEN a ELSE b
             f == IF IsInt(a) THEN b ELSE a
         IN f.n % TicksPerUnit = 0 /\ f.n \div TicksPerUnit = i.n

\* a < b for two finite numbers
FiniteLess(a, b) ==
    IF IsInt(a) = IsInt(b) THEN a.n < b.n
    ELSE IF IsInt(a) THEN a.n <= (b.n - 1) \div TicksPerUnit
    ELSE a.n \div TicksPerUnit < b.n

\* Python's a == b on scalars
PyEq(a, b) ==
    CASE a.k = "nan" \/ b.k = "nan" -> FALSE
      [] a.k = "inf" \/ b.k = "inf" -> a.k = b.k
      [] IsNumber(a) /\ IsNumber(b) -> FiniteEq(a, b)
      [] a.k = "str" /\ b.k = "str" -> a.s = b.s
      [] OTHER -> a.k = "null" /\ b.k = "null"

\* whether a < b is defined: between two strings or two numbers, else TypeError
Orderable(a, b) ==
    \/ a.k = "str" /\ b.k = "str"
    \/ IsNumber(a) /\ IsNumber(b)

\* Python's a < b where it is defined (any comparison with nan is False)
PyLess(a, b) ==
    CASE a.k = "str" -> LexLess(a.s, b.s)
      [] a.k = "nan" \/ b.k = "nan" -> FALSE
      [] a.k = "inf" -> FALSE
      [] b.k = "inf" -> TRUE
      [] OTHER -> FiniteLess(a, b)

(***************************************************************************)
(* Strings of the model, as code points.                                   *)
(***************************************************************************)
Digit(d) == 48 + d
TwoDigits(x) == <<Digit(x \div 10), Digit(x % 10)>>
DotJson == <<46, 106, 115, 111, 110>>
DotTxt == <<46, 116, 120, 116>>

\* datetime.utcnow().strftime("%Y%m%d-%H%M%S") at `c` seconds into 2026-01-01
FormatTs(c) ==
    <<50, 48, 50, 54, 48, 49, 48, 49, 45>>
        \o TwoDigits((c \div 3600) % 24) \o TwoDigits((c \div 60) % 60) \o TwoDigits(c % 60)

\* entry.endswith(suffix)
EndsWith(s, suffix) ==
    /\ Len(s) >= Len(suffix)
    /\ SubSeq(s, Len(s) - Len(suffix) + 1, Len(s)) = suffix

(***************************************************************************)
(* Columns.                                                                *)
(***************************************************************************)
BENCHMARK_COLUMNS ==
    <<"num_prompts", "request_rate", "burstiness", "max_concurrency", "duration",
      "completed", "failed", "request_throughput", "output_throughput",
      "total_token_throughput", "mean_ttft_ms", "p99_ttft_ms", "mean_tpot_ms",
      "p99_tpot_ms", "mean_itl_ms", "p99_itl_ms", "mean_e2el_ms", "p99_e2el_ms",
      "mean_audio_rtf", "p99_audio_rtf", "mean_audio_duration_s",
      "p99_audio_duration_s">>

NUMERIC_FORMAT_COLUMNS ==
    SelectSeq(BENCHMARK_COLUMNS, LAMBDA c : c \notin {"request_rate", "max_concurrency"})

\* the fallback list of _load_summary_columns
DefaultColumns ==
    <<"date", "endpoint_type", "backend", "model_id", "tokenizer_id">>
        \o BENCHMARK_COLUMNS
        \o <<"commit_sha", "build_id", "build_url", "source_file">>

Range(seq) == {seq[i] : i \in 1..Len(seq)}

\* dict.get(key): None when the key is absent
Get(d, key) == IF key \in DOMAIN d THEN d[key] ELSE Null

\* d[key] = v
Put(d, key, v) == (key :> v) @@ d

(***************************************************************************)
(* The input: what one directory entry may hold.                           *)
(*   kind "object"      a regular file whose content is the JSON object    *)
(*                      `data`                                             *)
(*   kind "nonobject"   a regular file whose JSON root is a list           *)
(*   kind "badjson"     a regular file json.load rejects (JSONDecodeError) *)
(*   kind "unreadable"  a regular file open() fails on (OSError)           *)
(*   kind "badutf8"     a regular file that is not UTF-8 text              *)
(*                      (UnicodeDecodeError, a ValueError)                 *)
(*   kind "subdir"      a directory                                        *)
(***************************************************************************)
S_a == <<97>>
S_b == <<98>>
S_x == <<120>>
S_9 == <<57>>
S_10 == <<49, 48>>
S_1 == <<49>>
S_inf == <<105, 110, 102>>
One == FloatV(TicksPerUnit)
OnePlus == FloatV(TicksPerUnit + 1)

File(ext, kind, data) == [ext |-> ext, kind |-> kind, data |-> data]
Obj(data) == File(DotJson, "object", data)
NoData == [unparsed |-> Null]

\* every kind of entry; the one record has neither a date nor a model_id
EntryFiles ==
    { File(DotJson, "nonobject", NoData),
      File(DotJson, "badjson", NoData),
      File(DotJson, "unreadable", NoData),
      File(DotJson, "badutf8", NoData),
      File(DotJson, "subdir", NoData),
      File(DotTxt, "object",
           [date |-> StrV(S_10), model_id |-> StrV(S_a), request_throughput |-> One]),
      Obj([request_throughput |-> IntV(1), source_file |-> StrV(S_x),
           extra |-> StrV(S_x)]) }

\* records that differ in date and model_id
OrderFiles ==
    { Obj([date |-> StrV(S_10), model_id |-> StrV(S_a), request_throughput |-> One]),
      Obj([date |-> StrV(S_9), model_id |-> StrV(S_a), request_throughput |-> OnePlus,
           commit_sha |-> StrV(S_x), build_id |-> IntV(1), build_url |-> StrV(S_x)]),
      Obj([date |-> Null, model_id |-> StrV(S_b), request_throughput |-> IntV(1),
           commit_sha |-> StrV(S_x)]),
      Obj([date |-> StrV(S_10), model_id |-> StrV(<<>>), request_throughput |-> One]),
      Obj([date |-> StrV(S_10), model_id |-> IntV(0), request_throughput |-> OnePlus]),
      Obj([date |-> IntV(5), model_id |-> StrV(S_a), request_throughput |-> One]) }

\* records that differ in their benchmark metrics
MetricFiles ==
    { Obj([date |-> StrV(S_10), model_id |-> StrV(S_a), request_throughput |-> One,
           request_rate |-> StrV(S_inf)]),
      Obj([date |-> StrV(S_9), model_id |-> StrV(S_a), request_throughput |-> OnePlus,
           request_rate |-> StrV(S_inf), max_concurrency |-> Null]),
      Obj([date |-> StrV(S_9), model_id |-> StrV(S_a), request_throughput |-> StrV(S_1),
           request_rate |-> IntV(1), max_concurrency |-> IntV(1)]),
      Obj([date |-> StrV(S_10), model_id |-> IntV(0), request_throughput |-> IntV(1),
           request_rate |-> StrV(S_1), failed |-> BoolV(TRUE)]),
      Obj([date |-> StrV(S_9), model_id |-> StrV(<<>>), request_throughput |-> FloatV(0),
           p99_ttft_ms |-> NaN]),
      Obj([date |-> StrV(S_9), model_id |-> IntV(0), request_throughput |-> FloatV(1),
           p99_ttft_ms |-> StrV(S_inf)]),
      Obj([date |-> StrV(S_9), model_id |-> NaN, request_throughput |-> One]) }

\* the schema file next to the script, when there is one
CustomColumns == <<"model_id", "date", "request_throughput", "commit_sha", "source_file">>
SchemaChoices == {DefaultColumns, CustomColumns}

\* the values main() may pass as commit_sha, build_id and build_url
MetaChoices ==
    { [commit_sha |-> Null, build_id |-> Null, build_url |-> Null],
      [commit_sha |-> StrV(S_a), build_id |-> StrV(S_1), build_url |-> StrV(S_b)] }

EntryName(i, ext) == <<102, Digit(i)>> \o ext
Entry(i, f) == [name |-> EntryName(i, f.ext), kind |-> f.kind, data |-> f.data]

(***************************************************************************)
(* State at the call of generate_excel_report.                             *)
(***************************************************************************)
NoSheet == [made |-> FALSE, header |-> <<>>, rows |-> <<>>, fills |-> {}, formats |-> {},
            widths |-> {}]
NoMeta == [commit_sha |-> Null, build_id |-> Null, build_url |-> Null]
NoCall == [fn |-> "", a |-> Null, b |-> Null, done |-> FALSE, res |-> Null]

InitRun(at) ==
    /\ clock = 0
    /\ pc = at
    /\ exc = ""
    /\ summary_columns = <<>>
    /\ pending = <<>>
    /\ objs = <<>>
    /\ records = <<>>
    /\ sorted_records = <<>>
    /\ meta = NoMeta
    /\ ws_summary = NoSheet
    /\ ws_raw = NoSheet
    /\ hl = 0
    /\ out = [parent |-> FALSE, file |-> FALSE, saves |-> 0]

\* a directory of at most MaxFiles entries drawn from `files`, or no directory
InitDir(files) ==
    \/ /\ dir_exists = FALSE
       /\ dir = {}
    \/ /\ dir_exists = TRUE
       /\ \E n \in 0..MaxFiles : \E f \in [1..n -> files] :
              dir = {Entry(i, f[i]) : i \in 1..n}

Init == InitRun("start") /\ InitDir(EntryFiles) /\ call = NoCall
InitOrder == InitRun("start") /\ InitDir(OrderFiles) /\ call = NoCall
InitMetric == InitRun("start") /\ InitDir(MetricFiles) /\ call = NoCall

(***************************************************************************)
(* generate_excel_report, lines 386-387: the summary schema.               *)
(***************************************************************************)
LoadSummaryColumns ==
    /\ pc = "start"
    /\ \E cols \in SchemaChoices : summary_columns' = cols
    /\ pc' = "list"
    /\ UNCHANGED <<dir_exists, dir, clock, exc, pending, objs, records, sorted_records,
                   meta, ws_summary, ws_raw, hl, out, call>>

(***************************************************************************)
(* _iter_json_records / _collect_records.                                  *)
(***************************************************************************)
\* sorted(os.listdir(input_dir)): the entries by name
RECURSIVE SortedListing(_)
SortedListing(es) ==
    IF es = {} THEN <<>>
    ELSE LET first == CHOOSE e \in es : \A o \in es : ~LexLess(o.name, e.name)
         IN <<first>> \o SortedListing(es \ {first})

\* lines 191-195: no directory, no entries
ListDir ==
    /\ pc = "list"
    /\ pending' = IF dir_exists THEN SortedListing(dir) ELSE <<>>
    /\ pc' = "collect"
    /\ UNCHANGED <<dir_exists, dir, clock, exc, summary_columns, objs, records,
                   sorted_records, meta, ws_summary, ws_raw, hl, out, call>>

\* _load_json_file: "raise" (an exception its except clause does not name),
\* "none" (a warning and None) or "dict"
LoadJsonFile(e) ==
    CASE e.kind = "badutf8" -> "raise"
      [] e.kind \in {"unreadable", "badjson"} -> "none"
      [] e.kind = "nonobject" -> "none"
      [] OTHER -> "dict"

\* Normalize keeping a source_file the source JSON gave
NormalizeKeepingSourceFile(data, now, name) ==
    LET dated == IF "date" \in DOMAIN data THEN data ELSE Put(data, "date", StrV(FormatTs(now)))
    IN IF "source_file" \in DOMAIN dated THEN dated ELSE Put(dated, "source_file", StrV(name))

\* lines 206-208: dict(data), the default date, the source file
Normalize(data, now, name) ==
    LET dated == IF "date" \in DOMAIN data THEN data ELSE Put(data, "date", StrV(FormatTs(now)))
    IN Put(dated, "source_file", StrV(name))

\* lines 196-209 for one entry, and the append of _collect_records
CollectEntry ==
    /\ pc = "collect"
    /\ pending # <<>>
    /\ LET e == Head(pending) IN
       IF ~EndsWith(e.name, DotJson) \/ e.kind = "subdir" \/ LoadJsonFile(e) = "none"
       THEN /\ pending' = Tail(pending)
            /\ UNCHANGED <<clock, pc, exc, objs, records>>
       ELSE IF LoadJsonFile(e) = "raise"
       THEN /\ pc' = "raised"
            /\ exc' = "UnicodeDecodeError"
            /\ UNCHANGED <<clock, pending, objs, records>>
       ELSE \E now \in (IF "date" \in DOMAIN e.data THEN {clock} ELSE clock..MaxClock) :
            /\ clock' = now
            /\ objs' = Append(objs, Normalize(e.data, now, e.name))
            /\ records' = Append(records, Len(objs) + 1)
            /\ pending' = Tail(pending)
            /\ UNCHANGED <<pc, exc>>
    /\ UNCHANGED <<dir_exists, dir, summary_columns, sorted_records, meta, ws_summary,
                   ws_raw, hl, out, call>>

\* lines 389-391
EndCollect ==
    /\ pc = "collect"
    /\ pending = <<>>
    /\ pc' = "sort"
    /\ UNCHANGED <<dir_exists, dir, clock, exc, summary_columns, pending, objs, records,
                   sorted_records, meta, ws_summary, ws_raw, hl, out, call>>

(***************************************************************************)
(* _sort_records_for_summary.                                              *)
(***************************************************************************)
\* r.get("date") or "", r.get("model_id") or ""
DateKey(r) == OrEmpty(Get(r, "date"))
ModelKey(r) == OrEmpty(Get(r, "model_id"))

\* sorted() raises TypeError as soon as two of its keys cannot be ordered
SortRaises(ids, keys) == \E i, j \in Range(ids) : ~Orderable(keys[i], keys[j])

\* x goes before the first element that is strictly after it: equal keys keep
\* their order (reverse=True keeps it too)
RECURSIVE InsertStable(_, _, _, _)
InsertStable(sorted, x, keys, reverse) ==
    IF sorted = <<>> THEN <<x>>
    ELSE LET h == Head(sorted)
             xFirst == IF reverse THEN PyLess(keys[h], keys[x]) ELSE PyLess(keys[x], keys[h])
         IN IF xFirst THEN <<x>> \o sorted
            ELSE <<h>> \o InsertStable(Tail(sorted), x, keys, reverse)

\* sorted(ids, key=keys, reverse=reverse), where no two keys raise
RECURSIVE StableSort(_, _, _)
StableSort(ids, keys, reverse) ==
    IF ids = <<>> THEN <<>>
    ELSE InsertStable(StableSort(SubSeq(ids, 1, Len(ids) - 1), keys, reverse),
                      ids[Len(ids)], keys, reverse)

DateKeys(os) == [i \in DOMAIN os |-> DateKey(os[i])]
ModelKeys(os) == [i \in DOMAIN os |-> ModelKey(os[i])]

\* SortForSummary with its two passes in the other order
SortForSummaryModelFirst(ids, os) ==
    StableSort(StableSort(ids, ModelKeys(os), FALSE), DateKeys(os), TRUE)

\* lines 245-246
SortForSummary(ids, os) ==
    StableSort(StableSort(ids, DateKeys(os), TRUE), ModelKeys(os), FALSE)

\* SortRecords sorting the collected list itself, as records.sort() would
SortRecordsInPlace ==
    /\ pc = "sort"
    /\ IF SortRaises(records, DateKeys(objs)) \/ SortRaises(records, ModelKeys(objs))
       THEN /\ pc' = "raised"
            /\ exc' = "TypeError"
            /\ UNCHANGED <<records, sorted_records>>
       ELSE /\ sorted_records' = SortForSummary(records, objs)
            /\ records' = SortForSummary(records, objs)
            /\ pc' = "apply"
            /\ UNCHANGED exc
    /\ UNCHANGED <<dir_exists, dir, clock, summary_columns, pending, objs, meta,
                   ws_summary, ws_raw, hl, out, call>>

\* line 393
SortRecords ==
    /\ pc = "sort"
    /\ IF SortRaises(records, DateKeys(objs)) \/ SortRaises(records, ModelKeys(objs))
       THEN /\ pc' = "raised"
            /\ exc' = "TypeError"
            /\ UNCHANGED sorted_records
       ELSE /\ sorted_records' = SortForSummary(records, objs)
            /\ pc' = "apply"
            /\ UNCHANGED exc
    /\ UNCHANGED <<dir_exists, dir, clock, summary_columns, pending, objs, records, meta,
                   ws_summary, ws_raw, hl, out, call>>

(***************************************************************************)
(* _apply_build_metadata_to_latest_only.                                   *)
(***************************************************************************)
\* max(...): the first of the largest
RECURSIVE MaxOf(_)
MaxOf(vals) ==
    IF Len(vals) = 1 THEN vals[1]
    ELSE LET best == MaxOf(SubSeq(vals, 1, Len(vals) - 1))
             x == vals[Len(vals)]
         IN IF PyLess(best, x) THEN x ELSE best

\* Stamp without its else branch: the older rows keep what the source JSON gave
StampLatestOnly(r, max_date, m) ==
    IF PyEq(DateKey(r), max_date)
    THEN Put(Put(Put(r, "commit_sha", m.commit_sha), "build_id", m.build_id),
             "build_url", m.build_url)
    ELSE r

\* lines 232-240 for one record
Stamp(r, max_date, m) ==
    IF PyEq(DateKey(r), max_date)
    THEN Put(Put(Put(r, "commit_sha", m.commit_sha), "build_id", m.build_id),
             "build_url", m.build_url)
    ELSE Put(Put(Put(r, "commit_sha", Null), "build_id", Null), "build_url", Null)

\* ApplyMetadata giving every record the supplied values, whatever its date
ApplyMetadataToAll(ids, os, m) ==
    [i \in DOMAIN os |->
        IF i \in Range(ids)
        THEN Put(Put(Put(os[i], "commit_sha", m.commit_sha), "build_id", m.build_id),
                 "build_url", m.build_url)
        ELSE os[i]]

\* lines 229-240: the records are changed in place
ApplyMetadata(ids, os, m) ==
    IF ids = <<>> THEN os
    ELSE LET max_date == MaxOf([i \in 1..Len(ids) |-> DateKey(os[ids[i]])])
         IN [i \in DOMAIN os |-> IF i \in Range(ids) THEN Stamp(os[i], max_date, m) ELSE os[i]]

\* line 394, with the values the caller passed
ApplyBuildMetadata ==
    /\ pc = "apply"
    /\ \E m \in MetaChoices :
         /\ meta' = m
         /\ objs' = ApplyMetadata(sorted_records, objs, m)
    /\ pc' = "write_summary"
    /\ UNCHANGED <<dir_exists, dir, clock, exc, summary_columns, pending, records,
                   sorted_records, ws_summary, ws_raw, hl, out, call>>

(***************************************************************************)
(* _values_differ.                                                         *)
(***************************************************************************)
Abs(x) == IF x < 0 THEN -x ELSE x

\* lines 255-260, both floats: inf - inf is nan, and nan > 1e-9 is False
FloatsDiffer(a, b) ==
    IF a.k = "nan" /\ b.k = "nan" THEN FALSE
    ELSE IF a.k = "nan" \/ b.k = "nan" THEN TRUE
    ELSE IF a.k = "inf" \/ b.k = "inf" THEN a.k # b.k
    ELSE Abs(a.n - b.n) > EpsTicks

ValuesDiffer(a, b) ==
    IF a.k = "null" /\ b.k = "null" THEN FALSE
    ELSE IF a.k = "null" \/ b.k = "null" THEN TRUE
    ELSE IF IsFloat(a) /\ IsFloat(b) THEN FloatsDiffer(a, b)
    ELSE ~PyEq(a, b)

(***************************************************************************)
(* _to_float_if_numeric, _write_sheet, _format_benchmark_columns.          *)
(***************************************************************************)
RECURSIVE DecimalValue(_)
DecimalValue(s) ==
    IF s = <<>> THEN 0 ELSE 10 * DecimalValue(SubSeq(s, 1, Len(s) - 1)) + (s[Len(s)] - 48)

\* float(s) of a string: a run of decimal digits, "inf" or "nan"; every other
\* string of the model raises ValueError ([ok |-> FALSE])
ParseFloat(s) ==
    IF s # <<>> /\ \A i \in 1..Len(s) : s[i] \in 48..57
    THEN [ok |-> TRUE, v |-> FloatV(DecimalValue(s) * TicksPerUnit)]
    ELSE IF s = <<105, 110, 102>> THEN [ok |-> TRUE, v |-> Inf]
    ELSE IF s = <<110, 97, 110>> THEN [ok |-> TRUE, v |-> NaN]
    ELSE [ok |-> FALSE, v |-> Null]

ToFloatIfNumeric(v) ==
    IF v.k = "null" THEN v
    ELSE IF IsInt(v) THEN FloatV(v.n * TicksPerUnit)
    ELSE IF IsFloat(v) THEN v
    ELSE IF ParseFloat(v.s).ok THEN ParseFloat(v.s).v
    ELSE v

\* WriteSheet writing the row of every record twice
WriteSheetTwice(columns, ids, os, numeric_columns) ==
    LET rows == [i \in 1..Len(ids) |->
                    [c \in 1..Len(columns) |->
                        IF columns[c] \in Range(numeric_columns)
                        THEN ToFloatIfNumeric(Get(os[ids[i]], columns[c]))
                        ELSE Get(os[ids[i]], columns[c])]]
    IN [ made |-> TRUE,
         header |-> columns,
         rows |-> rows \o rows,
         fills |-> {},
         formats |-> {},
         widths |-> {} ]

\* lines 334-343: the header, then one row per record
WriteSheet(columns, ids, os, numeric_columns) ==
    [ made |-> TRUE,
      header |-> columns,
      rows |-> [i \in 1..Len(ids) |->
                  [c \in 1..Len(columns) |->
                      IF columns[c] \in Range(numeric_columns)
                      THEN ToFloatIfNumeric(Get(os[ids[i]], columns[c]))
                      ELSE Get(os[ids[i]], columns[c])]],
      fills |-> {},
      formats |-> {},
      widths |-> {} ]

\* ws.cell(row, column).value: row 1 is the header
CellValue(ws, row, col) == ws.rows[row - 1][col]

\* lines 360-367 for one cell
FormatCell(v) ==
    IF v.k # "null" /\ IsNumber(v) THEN [v |-> v, fmt |-> TRUE]
    ELSE IF v.k = "str" /\ ParseFloat(v.s).ok THEN [v |-> ParseFloat(v.s).v, fmt |-> TRUE]
    ELSE [v |-> v, fmt |-> FALSE]

\* FormatBenchmarkColumns over every benchmark column, request_rate and
\* max_concurrency included
FormatEveryBenchmarkColumn(ws, columns, num_data_rows) ==
    LET numeric == {c \in 1..Len(columns) : columns[c] \in Range(BENCHMARK_COLUMNS)}
        data == 2..(1 + num_data_rows)
    IN [ ws EXCEPT
           !.widths = numeric,
           !.rows = [r \in DOMAIN ws.rows |->
                       [c \in DOMAIN ws.rows[r] |->
                           IF c \in numeric /\ (r + 1) \in data
                           THEN FormatCell(ws.rows[r][c]).v ELSE ws.rows[r][c]]],
           !.formats = {rc \in data \X numeric : FormatCell(CellValue(ws, rc[1], rc[2])).fmt} ]

\* lines 352-367
FormatBenchmarkColumns(ws, columns, num_data_rows) ==
    LET numeric == {c \in 1..Len(columns) : columns[c] \in Range(NUMERIC_FORMAT_COLUMNS)}
        data == 2..(1 + num_data_rows)
    IN [ ws EXCEPT
           !.widths = numeric,
           !.rows = [r \in DOMAIN ws.rows |->
                       [c \in DOMAIN ws.rows[r] |->
                           IF c \in numeric /\ (r + 1) \in data
                           THEN FormatCell(ws.rows[r][c]).v ELSE ws.rows[r][c]]],
           !.formats = {rc \in data \X numeric : FormatCell(CellValue(ws, rc[1], rc[2])).fmt} ]

\* lines 396-400
WriteSummary ==
    /\ pc = "write_summary"
    /\ ws_summary' = WriteSheet(summary_columns, sorted_records, objs, NUMERIC_FORMAT_COLUMNS)
    /\ pc' = "format"
    /\ UNCHANGED <<dir_exists, dir, clock, exc, summary_columns, pending, objs, records,
                   sorted_records, meta, ws_raw, hl, out, call>>

\* line 401
FormatSummary ==
    /\ pc = "format"
    /\ ws_summary' = FormatBenchmarkColumns(ws_summary, summary_columns, Len(sorted_records))
    /\ pc' = "highlight"
    /\ hl' = 0
    /\ UNCHANGED <<dir_exists, dir, clock, exc, summary_columns, pending, objs, records,
                   sorted_records, meta, ws_raw, out, call>>

(***************************************************************************)
(* _apply_benchmark_change_highlight: positions are 0-based, as in Python. *)
(***************************************************************************)
RecordAt(ids, os, i) == os[ids[i + 1]]

\* line 272: a repeated column name keeps its last position
ColToIndex(columns, col) == CHOOSE c \in 1..Len(columns) :
    columns[c] = col /\ \A d \in (c + 1)..Len(columns) : columns[d] # col

\* lines 278-279: the inner while
RECURSIVE BlockEnd(_, _, _, _)
BlockEnd(ids, os, i, model_id) ==
    IF i < Len(ids) /\ PyEq(Get(RecordAt(ids, os, i), "model_id"), model_id)
    THEN BlockEnd(ids, os, i + 1, model_id)
    ELSE i

\* BlockFills taking the next record as the previous run, whatever its model
BlockFillsAnyNext(columns, ids, os, block_start, block_end) ==
    IF ~(block_start + 1 < Len(ids)) THEN {}
    ELSE { <<block_start + 2, ColToIndex(columns, col)>> :
             col \in { c \in Range(BENCHMARK_COLUMNS) :
                         /\ c \in Range(columns)
                         /\ ValuesDiffer(Get(RecordAt(ids, os, block_start), c),
                                         Get(RecordAt(ids, os, block_start + 1), c)) } }

\* lines 281-292: the cells to fill for the block [block_start, block_end)
BlockFills(columns, ids, os, block_start, block_end) ==
    IF ~(block_start + 1 < block_end) THEN {}
    ELSE { <<block_start + 2, ColToIndex(columns, col)>> :
             col \in { c \in Range(BENCHMARK_COLUMNS) :
                         /\ c \in Range(columns)
                         /\ ValuesDiffer(Get(RecordAt(ids, os, block_start), c),
                                         Get(RecordAt(ids, os, block_start + 1), c)) } }

\* HighlightBlock filling the same cells of the raw sheet too
HighlightBlockBothSheets ==
    /\ pc = "highlight"
    /\ hl < Len(sorted_records)
    /\ LET model_id == Get(RecordAt(sorted_records, objs, hl), "model_id")
           block_end == BlockEnd(sorted_records, objs, hl, model_id)
           cells == BlockFills(summary_columns, sorted_records, objs, hl, block_end)
       IN /\ hl' = block_end
          /\ ws_summary' = [ws_summary EXCEPT !.fills = @ \cup cells]
          /\ ws_raw' = [ws_raw EXCEPT !.fills = @ \cup cells]
    /\ UNCHANGED <<dir_exists, dir, clock, pc, exc, summary_columns, pending, objs, records,
                   sorted_records, meta, out, call>>

\* one turn of the outer while (lines 275-292)
HighlightBlock ==
    /\ pc = "highlight"
    /\ hl < Len(sorted_records)
    /\ LET model_id == Get(RecordAt(sorted_records, objs, hl), "model_id")
           block_end == BlockEnd(sorted_records, objs, hl, model_id)
       IN /\ hl' = block_end
          /\ ws_summary' = [ws_summary EXCEPT !.fills =
                 @ \cup BlockFills(summary_columns, sorted_records, objs, hl, block_end)]
    /\ UNCHANGED <<dir_exists, dir, clock, pc, exc, summary_columns, pending, objs, records,
                   sorted_records, meta, ws_raw, out, call>>

\* lines 270-271 and the exit of the outer while
HighlightReturn ==
    /\ pc = "highlight"
    /\ ~(hl < Len(sorted_records))
    /\ pc' = "raw"
    /\ UNCHANGED <<dir_exists, dir, clock, exc, summary_columns, pending, objs, records,
                   sorted_records, meta, ws_summary, ws_raw, hl, out, call>>

(***************************************************************************)
(* _build_raw_columns and the raw sheet.                                   *)
(***************************************************************************)
\* the field names of the model in Python's string order
KeyOrder ==
    <<"backend", "build_id", "build_url", "burstiness", "commit_sha", "completed", "date",
      "duration", "endpoint_type", "extra", "failed", "max_concurrency",
      "mean_audio_duration_s", "mean_audio_rtf", "mean_e2el_ms", "mean_itl_ms",
      "mean_tpot_ms", "mean_ttft_ms", "model_id", "num_prompts", "output_throughput",
      "p99_audio_duration_s", "p99_audio_rtf", "p99_e2el_ms", "p99_itl_ms", "p99_tpot_ms",
      "p99_ttft_ms", "request_rate", "request_throughput", "source_file", "tokenizer_id",
      "total_token_throughput">>

\* sorted(keys)
SortedKeys(keys) == SelectSeq(KeyOrder, LAMBDA k : k \in keys)

\* SummaryFirst without keys.discard(key): a repeated schema name is repeated
RECURSIVE SummaryFirstRepeated(_, _)
SummaryFirstRepeated(columns, keys) ==
    IF columns = <<>> THEN <<>>
    ELSE IF Head(columns) \in keys
    THEN <<Head(columns)>> \o SummaryFirstRepeated(Tail(columns), keys)
    ELSE SummaryFirstRepeated(Tail(columns), keys)

\* lines 304-308: a summary column is taken once, at its first place
RECURSIVE SummaryFirst(_, _)
SummaryFirst(columns, keys) ==
    IF columns = <<>> THEN <<>>
    ELSE IF Head(columns) \in keys
    THEN <<Head(columns)>> \o SummaryFirst(Tail(columns), keys \ {Head(columns)})
    ELSE SummaryFirst(Tail(columns), keys)

BuildRawColumns(ids, os, columns) ==
    LET keys == UNION {DOMAIN os[ids[i]] : i \in 1..Len(ids)}
    IN SummaryFirst(columns, keys) \o SortedKeys(keys \ Range(columns))

\* WriteRaw coercing the numeric columns as the summary sheet does
WriteRawCoerced ==
    /\ pc = "raw"
    /\ ws_raw' = IF sorted_records # <<>>
                 THEN WriteSheet(BuildRawColumns(sorted_records, objs, summary_columns),
                                 sorted_records, objs, NUMERIC_FORMAT_COLUMNS)
                 ELSE ws_raw
    /\ pc' = "ensure_dir"
    /\ UNCHANGED <<dir_exists, dir, clock, exc, summary_columns, pending, objs, records,
                   sorted_records, meta, ws_summary, hl, out, call>>

\* lines 404-407
WriteRaw ==
    /\ pc = "raw"
    /\ ws_raw' = IF sorted_records # <<>>
                 THEN WriteSheet(BuildRawColumns(sorted_records, objs, summary_columns),
                                 sorted_records, objs, <<>>)
                 ELSE ws_raw
    /\ pc' = "ensure_dir"
    /\ UNCHANGED <<dir_exists, dir, clock, exc, summary_columns, pending, objs, records,
                   sorted_records, meta, ws_summary, hl, out, call>>

(***************************************************************************)
(* _ensure_parent_dir and wb.save: either may fail with OSError.           *)
(***************************************************************************)
EnsureParentDir ==
    /\ pc = "ensure_dir"
    /\ \E ok \in BOOLEAN :
         IF ok THEN /\ out' = [out EXCEPT !.parent = TRUE]
                    /\ pc' = "save"
                    /\ UNCHANGED exc
         ELSE /\ pc' = "raised"
              /\ exc' = "OSError"
              /\ UNCHANGED out
    /\ UNCHANGED <<dir_exists, dir, clock, summary_columns, pending, objs, records,
                   sorted_records, meta, ws_summary, ws_raw, hl, call>>

\* Save trying again after a failure instead of raising
SaveRetrying ==
    /\ pc = "save"
    /\ \E ok \in BOOLEAN :
         IF ok THEN /\ out' = [out EXCEPT !.file = TRUE, !.saves = @ + 1]
                    /\ pc' = "done"
                    /\ UNCHANGED exc
         ELSE /\ exc' = "OSError"
              /\ UNCHANGED <<pc, out>>
    /\ UNCHANGED <<dir_exists, dir, clock, summary_columns, pending, objs, records,
                   sorted_records, meta, ws_summary, ws_raw, hl, call>>

\* line 410
Save ==
    /\ pc = "save"
    /\ \E ok \in BOOLEAN :
         IF ok THEN /\ out' = [out EXCEPT !.file = TRUE, !.saves = @ + 1]
                    /\ pc' = "done"
                    /\ UNCHANGED exc
         ELSE /\ pc' = "raised"
              /\ exc' = "OSError"
              /\ UNCHANGED out
    /\ UNCHANGED <<dir_exists, dir, clock, summary_columns, pending, objs, records,
                   sorted_records, meta, ws_summary, ws_raw, hl, call>>

Next ==
    \/ LoadSummaryColumns
    \/ ListDir
    \/ CollectEntry
    \/ EndCollect
    \/ SortRecords
    \/ ApplyBuildMetadata
    \/ WriteSummary
    \/ FormatSummary
    \/ HighlightBlock
    \/ HighlightReturn
    \/ WriteRaw
    \/ EnsureParentDir
    \/ Save

\* directories of every kind of entry
Spec == Init /\ [][Next]_vars
\* directories of records that differ in date and model_id
SpecOrder == InitOrder /\ [][Next]_vars
\* directories of records that differ in their metrics
SpecMetric == InitMetric /\ [][Next]_vars

(***************************************************************************)
(* _values_differ on its own, over pairs of scalars.                       *)
(***************************************************************************)
Scalars ==
    { Null, BoolV(TRUE), BoolV(FALSE), IntV(0), IntV(1), FloatV(0), FloatV(1),
      One, OnePlus, FloatV(TicksPerUnit + 3), NaN, Inf, StrV(<<>>), StrV(S_1), StrV(S_inf) }

InitDiffer ==
    /\ InitRun("unit")
    /\ dir_exists = FALSE
    /\ dir = {}
    /\ \E a, b \in Scalars :
         call = [fn |-> "_values_differ", a |-> a, b |-> b, done |-> FALSE, res |-> Null]

CallValuesDiffer ==
    /\ call.fn = "_values_differ"
    /\ ~call.done
    /\ call' = [call EXCEPT !.done = TRUE, !.res = BoolV(ValuesDiffer(call.a, call.b))]
    /\ UNCHANGED <<dir_exists, dir, clock, pc, exc, summary_columns, pending, objs, records,
                   sorted_records, meta, ws_summary, ws_raw, hl, out>>

NextDiffer == CallValuesDiffer

SpecDiffer == InitDiffer /\ [][NextDiffer]_vars

(***************************************************************************)
(* _build_raw_columns on its own, over small record lists and schemas; a   *)
(* schema file may name a column twice.                                    *)
(***************************************************************************)
RepeatingColumns == <<"source_file", "date", "request_throughput", "date">>

RawSchemas == SchemaChoices \cup {RepeatingColumns}

RawRecords == {f.data : f \in {g \in EntryFiles \cup MetricFiles : g.kind = "object"}}

MaxRawRecords == 2

InitRaw ==
    /\ clock = 0
    /\ pc = "unit"
    /\ exc = ""
    /\ pending = <<>>
    /\ records = <<>>
    /\ meta = NoMeta
    /\ ws_summary = NoSheet
    /\ ws_raw = NoSheet
    /\ hl = 0
    /\ out = [parent |-> FALSE, file |-> FALSE, saves |-> 0]
    /\ dir_exists = FALSE
    /\ dir = {}
    /\ summary_columns \in RawSchemas
    /\ \E n \in 0..MaxRawRecords :
         /\ objs \in [1..n -> RawRecords]
         /\ sorted_records = [i \in 1..n |-> i]
    /\ call = [fn |-> "_build_raw_columns", a |-> Null, b |-> Null, done |-> FALSE,
               res |-> <<>>]

CallBuildRawColumns ==
    /\ call.fn = "_build_raw_columns"
    /\ ~call.done
    /\ call' = [call EXCEPT !.done = TRUE,
                            !.res = BuildRawColumns(sorted_records, objs, summary_columns)]
    /\ UNCHANGED <<dir_exists, dir, clock, pc, exc, summary_columns, pending, objs, records,
                   sorted_records, meta, ws_summary, ws_raw, hl, out>>

NextRaw == CallBuildRawColumns

SpecRaw == InitRaw /\ [][NextRaw]_vars

(***************************************************************************)
(* generate_excel_report invoked a second time on the same directory, some *)
(* time after the first invocation has saved its workbook.  `call` keeps   *)
(* what the first invocation was given and what it built.                  *)
(***************************************************************************)
MaxTwiceFiles == 2

\* a record without a date, and two dated records, all of one model
TwiceFiles ==
    { Obj([model_id |-> StrV(S_a), request_throughput |-> One]),
      Obj([date |-> StrV(S_10), model_id |-> StrV(S_a), request_throughput |-> FloatV(0)]),
      Obj([date |-> StrV(S_9), model_id |-> StrV(S_a), request_throughput |-> IntV(1)]) }

InitTwice ==
    /\ InitRun("start")
    /\ call = NoCall
    /\ \/ /\ dir_exists = FALSE
          /\ dir = {}
       \/ /\ dir_exists = TRUE
          /\ \E n \in 0..MaxTwiceFiles : \E f \in [1..n -> TwiceFiles] :
                 dir = {Entry(i, f[i]) : i \in 1..n}

\* the second invocation starts from scratch, the directory as it was
Rerun ==
    /\ pc = "done"
    /\ call.fn = ""
    /\ call' = [fn |-> "generate_excel_report", a |-> Null, b |-> Null, done |-> TRUE,
                res |-> [columns |-> summary_columns, meta |-> meta,
                         summary |-> ws_summary, raw |-> ws_raw]]
    /\ \E now \in clock..MaxClock : clock' = now
    /\ pc' = "start"
    /\ summary_columns' = <<>>
    /\ pending' = <<>>
    /\ objs' = <<>>
    /\ records' = <<>>
    /\ sorted_records' = <<>>
    /\ meta' = NoMeta
    /\ ws_summary' = NoSheet
    /\ ws_raw' = NoSheet
    /\ hl' = 0
    /\ out' = [out EXCEPT !.saves = 0]
    /\ UNCHANGED <<dir_exists, dir, exc>>

NextTwice ==
    \/ Next
    \/ Rerun

SpecTwice == InitTwice /\ [][NextTwice]_vars

(***************************************************************************)
(* send_nightly_perf_email.py: one call of _send_mail.  `call.a` holds what *)
(* the call is given (dry_run, the environment, the report file), and      *)
(* `call.res` where it stands: its position `at`, the loop variable        *)
(* `attempt`, whether the report is attached, the log of what it did       *)
(* ("ok" and "fail" for an SMTP attempt, "sleep" for a wait) and how it    *)
(* ended.                                                                  *)
(***************************************************************************)
SMTP_RETRIES == 3
SMTP_RETRY_DELAY_SEC == 5

\* the environment: complete, a required variable missing, a recipient list
\* with no address in it, or an SMTP_PORT that is no number
MailEnvs == {"ok", "missing", "no_recipients", "bad_port"}
\* the report file: not a file, empty, attachable, or too large to attach
MailReports == {"absent", "empty", "small", "large"}

MailInputs ==
    [dry_run : BOOLEAN, env : MailEnvs, report : MailReports]

InitMail ==
    /\ InitRun("unit")
    /\ dir_exists = FALSE
    /\ dir = {}
    /\ \E given \in MailInputs :
         call = [fn |-> "_send_mail", a |-> given, b |-> Null, done |-> FALSE,
                 res |-> [at |-> "config", attempt |-> 0, attach_excel |-> FALSE,
                          log |-> <<>>, waited |-> 0, exit |-> ""]]

MailFrame ==
    UNCHANGED <<dir_exists, dir, clock, pc, exc, summary_columns, pending, objs, records,
                sorted_records, meta, ws_summary, ws_raw, hl, out>>

\* call.res with its position, and the call over when the position is final
MailAt(res, at) == [res EXCEPT !.at = at]
MailStep(res) ==
    /\ call' = [call EXCEPT !.res = res, !.done = res.at \in {"returned", "exited", "raised"}]
    /\ MailFrame

\* lines 106-109
LoadMailConfig ==
    /\ call.fn = "_send_mail"
    /\ call.res.at = "config"
    /\ IF call.a.env \in {"missing", "no_recipients"}
       THEN MailStep([MailAt(call.res, "exited") EXCEPT !.exit = "SystemExit"])
       ELSE MailStep(MailAt(call.res, "message"))

\* lines 111-135
BuildMailMessage ==
    /\ call.fn = "_send_mail"
    /\ call.res.at = "message"
    /\ MailStep([MailAt(call.res, "dispatch") EXCEPT !.attach_excel = (call.a.report = "small")])

\* lines 137-143
MailDryRun ==
    /\ call.fn = "_send_mail"
    /\ call.res.at = "dispatch"
    /\ call.a.dry_run
    /\ MailStep(MailAt(call.res, "returned"))

\* lines 145-146
ParseMailPort ==
    /\ call.fn = "_send_mail"
    /\ call.res.at = "dispatch"
    /\ ~call.a.dry_run
    /\ IF call.a.env = "bad_port"
       THEN MailStep([MailAt(call.res, "raised") EXCEPT !.exit = "ValueError"])
       ELSE MailStep([MailAt(call.res, "loop") EXCEPT !.attempt = 0])

\* SmtpAttempt going to sleep after every failure, the last one included
SmtpAttemptAlwaysWaiting ==
    /\ call.fn = "_send_mail"
    /\ call.res.at = "loop"
    /\ call.res.attempt < SMTP_RETRIES
    /\ \E ok \in BOOLEAN :
         IF ok
         THEN MailStep([MailAt(call.res, "returned") EXCEPT !.log = Append(@, "ok")])
         ELSE MailStep([MailAt(call.res, "sleep") EXCEPT !.log = Append(@, "fail")])

\* lines 147-158: one turn of the for loop up to the sleep
SmtpAttempt ==
    /\ call.fn = "_send_mail"
    /\ call.res.at = "loop"
    /\ call.res.attempt < SMTP_RETRIES
    /\ \E ok \in BOOLEAN :
         IF ok
         THEN MailStep([MailAt(call.res, "returned") EXCEPT !.log = Append(@, "ok")])
         ELSE IF call.res.attempt < SMTP_RETRIES - 1
         THEN MailStep([MailAt(call.res, "sleep") EXCEPT !.log = Append(@, "fail")])
         ELSE MailStep([call.res EXCEPT !.log = Append(@, "fail"), !.attempt = @ + 1])

\* lines 159-161, and the next value of the loop variable
SmtpSleep ==
    /\ call.fn = "_send_mail"
    /\ call.res.at = "sleep"
    /\ MailStep([MailAt(call.res, "loop") EXCEPT !.log = Append(@, "sleep"),
                                                 !.waited = @ + SMTP_RETRY_DELAY_SEC,
                                                 !.attempt = @ + 1])

\* line 162
SmtpGiveUp ==
    /\ call.fn = "_send_mail"
    /\ call.res.at = "loop"
    /\ ~(call.res.attempt < SMTP_RETRIES)
    /\ MailStep([MailAt(call.res, "exited") EXCEPT !.exit = "SystemExit"])

NextMail ==
    \/ LoadMailConfig
    \/ BuildMailMessage
    \/ MailDryRun
    \/ ParseMailPort
    \/ SmtpAttempt
    \/ SmtpSleep
    \/ SmtpGiveUp

SpecMail == InitMail /\ [][NextMail]_vars

(***************************************************************************)
(* The claims.                                                             *)
(***************************************************************************)
\* the positions of the run past a given step
AfterSort ==
    \/ pc \in {"apply", "write_summary", "format", "highlight", "raw", "ensure_dir", "save",
               "done"}
    \/ pc = "raised" /\ exc = "OSError"
AfterApply == AfterSort /\ pc # "apply"
AfterHighlight == AfterApply /\ pc \notin {"write_summary", "format", "highlight"}

\* a record's date as the claims read it: a missing or null date is ""
ClaimDate(r) == IF "date" \notin DOMAIN r \/ r.date.k = "null" THEN StrV(<<>>) ELSE r.date
\* the order of two dates: of strings by character, of numbers by value
ClaimBefore(a, b) == IF a.k = "str" /\ b.k = "str" THEN LexLess(a.s, b.s) ELSE a.n < b.n
HasMaxDate(r) == \A i \in DOMAIN objs : ~ClaimBefore(ClaimDate(r), ClaimDate(objs[i]))
MetadataIs(r, sha, id, url) ==
    /\ {"commit_sha", "build_id", "build_url"} \subseteq DOMAIN r
    /\ r.commit_sha = sha
    /\ r.build_id = id
    /\ r.build_url = url
\* the record at (1-based) place p of the Orderer's output
Placed(p) == objs[sorted_records[p]]
Places == 1..Len(sorted_records)
\* two records of the same model
SameModel(r, s) == Get(r, "model_id") = Get(s, "model_id")

(* C1: once _apply_build_metadata_to_latest_only has run, every record whose
   date is the maximum date (string comparison, a missing or null date being
   the empty string), ties included, holds the three supplied values, and
   every other record holds null in all three fields, whatever the source
   JSON gave them. *)
C1_LatestOnlyStamped ==
    AfterApply =>
        \A i \in DOMAIN objs :
            IF HasMaxDate(objs[i])
            THEN MetadataIs(objs[i], meta.commit_sha, meta.build_id, meta.build_url)
            ELSE MetadataIs(objs[i], Null, Null, Null)

\* two records tie for the maximum date and are stamped with non-null values,
\* and an older record whose source JSON carried a commit_sha is in the report
C1_Witness ==
    /\ pc = "done"
    /\ meta.commit_sha # Null
    /\ \E i, j \in DOMAIN objs : i # j /\ HasMaxDate(objs[i]) /\ HasMaxDate(objs[j])
    /\ \E k \in DOMAIN objs :
         /\ ~HasMaxDate(objs[k])
         /\ \E e \in dir : StrV(e.name) = objs[k].source_file /\ "commit_sha" \in DOMAIN e.data

(* C2: in the Orderer's output all records sharing a model_id occupy
   consecutive places, and within each such group the dates descend, the
   group's first record being the model's most recent run. *)
C2_GroupedNewestFirst ==
    AfterSort =>
        \A p, q \in Places :
            (p < q /\ SameModel(Placed(p), Placed(q))) =>
                /\ \A m \in p..q : SameModel(Placed(m), Placed(p))
                /\ ~ClaimBefore(ClaimDate(Placed(p)), ClaimDate(Placed(q)))

\* the first place of a model's group, and the place of its second-newest record
FirstOfModel(p) == \A q \in Places : q < p => ~SameModel(Placed(q), Placed(p))
LaterOfModel(p) == {q \in Places : q > p /\ SameModel(Placed(q), Placed(p))}
SecondOfModel(p) == CHOOSE q \in LaterOfModel(p) : \A o \in LaterOfModel(p) : q <= o
\* the summary sheet's column of a schema name, and the sheet row of a place
ColumnOf(col) == CHOOSE c \in 1..Len(summary_columns) : summary_columns[c] = col
RowOf(p) == p + 1
Highlighted(p, col) == <<RowOf(p), ColumnOf(col)>> \in ws_summary.fills
SchemaBenchmarks == Range(BENCHMARK_COLUMNS) \cap Range(summary_columns)

(* C3: in a model's group of two or more records only the first (newest) row
   is ever highlighted: no cell of the second or a later row of the group is
   filled. *)
C3_OnlyNewestRowHighlighted ==
    \A rc \in ws_summary.fills : FirstOfModel(rc[1] - 1)

(* C4: after the full pipeline, for every model with at least two records and
   every benchmark column of the summary schema, the cell of the model's
   newest record is highlighted exactly when the column's values in the
   newest and the second-newest record differ. *)
C4_HighlightIffChanged ==
    pc = "done" =>
        \A p \in Places :
            (FirstOfModel(p) /\ LaterOfModel(p) # {}) =>
                \A col \in SchemaBenchmarks :
                    Highlighted(p, col) <=>
                        ValuesDiffer(Get(Placed(p), col), Get(Placed(SecondOfModel(p)), col))

(* C5: a model with a single record gets no highlight: no cell of that
   record's summary row is filled, whatever its values. *)
C5_SingleRecordNoHighlight ==
    \A p \in Places :
        (\A q \in Places : q # p => ~SameModel(Placed(q), Placed(p))) =>
            \A rc \in ws_summary.fills : rc[1] # RowOf(p)

\* the report is done, some cell of it is highlighted, and a model with a
\* single record is followed by a record whose metrics differ from its own
C5_Witness ==
    /\ pc = "done"
    /\ ws_summary.fills # {}
    /\ \E p \in Places :
         /\ \A q \in Places : q # p => ~SameModel(Placed(q), Placed(p))
         /\ p < Len(sorted_records)
         /\ \E col \in SchemaBenchmarks :
              ValuesDiffer(Get(Placed(p), col), Get(Placed(p + 1), col))

(* C7: a summary cell is highlighted only if the value written to it differs
   from the value written in the same column of the row of the model's
   second-newest record. *)
C7_HighlightedCellChanged ==
    \A rc \in ws_summary.fills :
        /\ LaterOfModel(rc[1] - 1) # {}
        /\ CellValue(ws_summary, rc[1], rc[2])
             # CellValue(ws_summary, RowOf(SecondOfModel(rc[1] - 1)), rc[2])

\* "different" as the claim defines it: a bool is left to plain inequality
ClaimNumeric(v) == v.k \in {"int", "float", "nan", "inf"}
ClaimTicks(v) == IF v.k = "int" THEN v.n * TicksPerUnit ELSE v.n
ClaimDiffer(a, b) ==
    IF a.k = "null" \/ b.k = "null" THEN a.k # b.k
    ELSE IF ClaimNumeric(a) /\ ClaimNumeric(b)
    THEN IF a.k = "nan" \/ b.k = "nan" THEN a.k # b.k
         ELSE IF a.k = "inf" \/ b.k = "inf" THEN a.k # b.k
         ELSE Abs(ClaimTicks(a) - ClaimTicks(b)) > EpsTicks
    ELSE ~PyEq(a, b)

(* C6: _values_differ(a, b) is true exactly when one of a, b is null and the
   other is not, or both are numbers (integer or float, in any combination)
   more than 1e-9 apart, two not-a-number values being equal, or, for the
   other pairs, a is not equal to b. *)
C6_ValuesDifferAsClaimed ==
    (call.fn = "_values_differ" /\ call.done) =>
        call.res = BoolV(ClaimDiffer(call.a, call.b))

(* C8: no input file makes the run abort: whatever the files hold, the run
   reaches the save step without raising. *)
C8_NoInputAborts ==
    pc = "raised" => exc = "OSError"

\* the entries the Collector is to turn into records
Loadable(e) == EndsWith(e.name, DotJson) /\ e.kind = "object"
CollectEnded == pc \notin {"start", "list", "collect"}
Collected(i) == objs[records[i]]

(* C9: the records collected from an existing directory are one record per
   regular *.json file whose content is a JSON object, in the order of the
   file names; every other entry (unopenable, undecodable, or of a root that is
   no object) yields no record. *)
C9_OneRecordPerLoadableFile ==
    (dir_exists /\ CollectEnded) =>
        /\ Len(records) = Cardinality({e \in dir : Loadable(e)})
        /\ \A e \in dir : Loadable(e) <=>
               \E i \in 1..Len(records) : Collected(i).source_file = StrV(e.name)
        /\ \A i, j \in 1..Len(records) :
               i < j => LexLess(Collected(i).source_file.s, Collected(j).source_file.s)

(* C10: when zero records are collected (no directory, an empty one, or no
   loadable file), the run raises no exception of its own, the Applicator and
   the Highlighter change nothing, and the saved workbook has a summary sheet
   of the header row alone and no raw sheet. *)
C10_EmptyReport ==
    (\A e \in dir : ~Loadable(e)) =>
        /\ pc = "raised" => exc = "OSError"
        /\ objs = <<>>
        /\ ws_summary.fills = {}
        /\ pc = "done" =>
              /\ ws_summary.made
              /\ ws_summary.header = summary_columns
              /\ ws_summary.rows = <<>>
              /\ ~ws_raw.made

\* the rows of a sheet, its header included; a sheet never created has none
SheetRows(ws) == IF ws.made THEN 1 + Len(ws.rows) ELSE 0

(* C11, as stated: for all input sets the saved workbook's raw sheet has as
   many rows as there are loaded records, plus one header row. *)
C11_RawRowsAsStated ==
    pc = "done" => SheetRows(ws_raw) = Len(records) + 1

(* C11: when at least one record is loaded, the raw sheet has one row per
   loaded record plus one header row; when none is loaded the workbook has no
   raw sheet at all. *)
C11_RawRows ==
    pc = "done" =>
        IF records # <<>>
        THEN SheetRows(ws_raw) = Len(records) + 1
        ELSE ~ws_raw.made

\* a saved report of two records from a directory that also holds an entry
\* that yields no record
C11_Witness ==
    /\ pc = "done"
    /\ Len(records) = 2
    /\ SheetRows(ws_raw) = 3
    /\ \E e \in dir : ~Loadable(e)

\* the place of a name in a list (its first), and every key of the ordered records
PlaceIn(seq, x) == CHOOSE i \in 1..Len(seq) : seq[i] = x /\ \A j \in 1..(i - 1) : seq[j] # x
AllKeys == UNION {DOMAIN objs[sorted_records[i]] : i \in 1..Len(sorted_records)}
\* cols lists AllKeys once each, the schema's names first and in schema order,
\* the other keys after them in the order of their characters
ListedSchemaFirst(cols) ==
    /\ \A i, j \in 1..Len(cols) : cols[i] = cols[j] => i = j
    /\ Range(cols) = AllKeys
    /\ \A i, j \in 1..Len(cols) :
           i < j =>
               IF cols[i] \in Range(summary_columns)
               THEN cols[j] \in Range(summary_columns) =>
                        PlaceIn(summary_columns, cols[i]) < PlaceIn(summary_columns, cols[j])
               ELSE /\ cols[j] \notin Range(summary_columns)
                    /\ PlaceIn(KeyOrder, cols[i]) < PlaceIn(KeyOrder, cols[j])

(* C12: the raw sheet's column list names every key of every record exactly
   once: the summary schema's columns first, in schema order, then all the
   remaining keys in lexicographic order. *)
C12_RawColumns ==
    /\ (call.fn = "_build_raw_columns" /\ call.done) => ListedSchemaFirst(call.res)
    /\ ws_raw.made => ListedSchemaFirst(ws_raw.header)

\* the schema names a key of the records twice and a column no record has,
\* and two keys of the records are outside the schema
C12_Witness ==
    /\ call.fn = "_build_raw_columns"
    /\ call.done
    /\ summary_columns = RepeatingColumns
    /\ "date" \in AllKeys
    /\ "request_throughput" \in AllKeys
    /\ "source_file" \notin AllKeys
    /\ Cardinality(AllKeys \ Range(summary_columns)) >= 2

\* the place of the record made from entry e, and the raw sheet's cell of a
\* place under a column name
PlaceOf(e) == CHOOSE p \in Places : Placed(p).source_file = StrV(e.name)
RawCell(p, col) == ws_raw.rows[p][PlaceIn(ws_raw.header, col)]
\* the fields the pipeline writes itself
OwnFields == {"source_file", "commit_sha", "build_id", "build_url"}

(* C13, as stated: every field of every input JSON record is a column of the
   raw sheet, and the record's raw cell in that column equals the field's
   value in the source JSON. *)
C13_RoundTripAsStated ==
    pc = "done" =>
        \A e \in {f \in dir : Loadable(f)} : \A k \in DOMAIN e.data :
            /\ k \in Range(ws_raw.header)
            /\ RawCell(PlaceOf(e), k) = e.data[k]

(* C13: every field of every input JSON record is a column of the raw sheet;
   the record's raw cell equals the source value for every field but
   source_file, commit_sha, build_id and build_url, which hold the file's name
   and the build metadata the Applicator stamped, whatever the source gave. *)
C13_RoundTrip ==
    pc = "done" =>
        \A e \in {f \in dir : Loadable(f)} : \A k \in DOMAIN e.data :
            /\ k \in Range(ws_raw.header)
            /\ k \notin OwnFields => RawCell(PlaceOf(e), k) = e.data[k]
            /\ k = "source_file" => RawCell(PlaceOf(e), k) = StrV(e.name)
            /\ k \in OwnFields \ {"source_file"} =>
                   RawCell(PlaceOf(e), k) \in {Null, meta[k]}

\* a saved report with a record whose source JSON gave a commit_sha that the
\* raw sheet does not show, and an integer metric that it shows as it was
C13_Witness ==
    /\ pc = "done"
    /\ \E e \in dir :
         /\ Loadable(e)
         /\ "commit_sha" \in DOMAIN e.data
         /\ RawCell(PlaceOf(e), "commit_sha") # e.data.commit_sha
         /\ e.data.request_throughput = IntV(1)
         /\ RawCell(PlaceOf(e), "request_throughput") = IntV(1)

\* the second invocation is done, and was given what the first was given
SecondRunDone ==
    /\ pc = "done"
    /\ call.fn = "generate_excel_report"
    /\ call.res.columns = summary_columns
    /\ call.res.meta = meta

(* C14: a second run over the unchanged directory with the unchanged schema
   and metadata arguments builds the same two sheets as the first: the same
   rows in the same order with the same cell values, and the same
   highlighted cells. *)
C14_SameSheetsTwice ==
    SecondRunDone =>
        /\ ws_summary = call.res.summary
        /\ ws_raw = call.res.raw

\* a record that holds a non-null value in one of the build-metadata fields
CarriesMetadata(r) ==
    \E k \in {"commit_sha", "build_id", "build_url"} : k \in DOMAIN r /\ r[k] # Null

(* C15, as stated: once the Applicator has run, a record carries non-null
   build metadata if and only if its date is the maximum date, and every
   other record holds explicit nulls in the three fields. *)
C15_MetadataIffLatestAsStated ==
    AfterApply =>
        \A i \in DOMAIN objs :
            /\ CarriesMetadata(objs[i]) <=> HasMaxDate(objs[i])
            /\ ~HasMaxDate(objs[i]) => MetadataIs(objs[i], Null, Null, Null)

(* C15: once the Applicator has run, a record carries non-null build metadata
   only if its date is the maximum date; a record of the maximum date carries
   it exactly when the caller supplied it (the supplied values may be null);
   every other record holds explicit nulls in the three fields. *)
C15_MetadataOnlyOnLatest ==
    AfterApply =>
        \A i \in DOMAIN objs :
            /\ CarriesMetadata(objs[i]) => HasMaxDate(objs[i])
            /\ HasMaxDate(objs[i]) => (CarriesMetadata(objs[i]) <=> CarriesMetadata(meta))
            /\ ~HasMaxDate(objs[i]) => MetadataIs(objs[i], Null, Null, Null)

\* the caller supplied no metadata: the record of the latest date holds
\* nulls although its source JSON carried a build, as does an older record
C15_Witness ==
    /\ pc = "done"
    /\ ~CarriesMetadata(meta)
    /\ \E i, j \in DOMAIN objs :
         /\ HasMaxDate(objs[i])
         /\ ~HasMaxDate(objs[j])
         /\ MetadataIs(objs[i], Null, Null, Null)
         /\ \E e \in dir : StrV(e.name) = objs[i].source_file /\ "build_id" \in DOMAIN e.data

(* C16: every record that enters the Orderer and the Highlighter has a date
   and a model_id: neither field is absent from any collected record. *)
C16_DateAndModelPresent ==
    CollectEnded =>
        \A i \in 1..Len(records) : {"date", "model_id"} \subseteq DOMAIN Collected(i)

\* a string that looks like a number: a run of decimal digits
LooksNumeric(v) == v.k = "str" /\ v.s # <<>> /\ \A i \in 1..Len(v.s) : v.s[i] \in 48..57
\* the value the claim has a numeric column hold for a record's value v
ClaimWritten(v) ==
    IF v.k = "int" THEN FloatV(v.n * TicksPerUnit)
    ELSE IF LooksNumeric(v) THEN FloatV(DecimalValue(v.s) * TicksPerUnit)
    ELSE v
\* the summary sheet's cell of a place under a column name
SummaryCell(p, col) == ws_summary.rows[p][ColumnOf(col)]

(* C17: in a numeric column of the summary sheet the cell of a record holds
   the value itself for a boolean or a float, the float of the same value for
   an integer, the parsed float for a numeric-looking string, and the
   unchanged value for everything else, the string "inf" and null included. *)
C17_NumericColumnValue ==
    ws_summary.made =>
        \A p \in Places :
            \A col \in Range(NUMERIC_FORMAT_COLUMNS) \cap Range(summary_columns) :
                SummaryCell(p, col) = ClaimWritten(Get(Placed(p), col))

\* the benchmark columns left out of NUMERIC_FORMAT_COLUMNS
UncoercedColumns == Range(BENCHMARK_COLUMNS) \ Range(NUMERIC_FORMAT_COLUMNS)

(* C18: the summary cells of request_rate and max_concurrency, and every
   cell of the raw sheet, hold the record's value as it is, after the write
   and after the formatting pass: "inf" stays the string "inf", a
   numeric-looking string stays a string, null stays null. *)
C18_UncoercedCells ==
    /\ ws_summary.made =>
           \A p \in Places : \A col \in UncoercedColumns \cap Range(summary_columns) :
               SummaryCell(p, col) = Get(Placed(p), col)
    /\ ws_raw.made =>
           \A p \in Places : \A c \in 1..Len(ws_raw.header) :
               ws_raw.rows[p][c] = Get(Placed(p), ws_raw.header[c])

\* a saved report whose summary sheet shows a request_rate of "inf", one of
\* "1" and a null max_concurrency, and whose raw sheet shows a
\* request_throughput of "1"
C18_Witness ==
    /\ pc = "done"
    /\ UncoercedColumns \subseteq Range(summary_columns)
    /\ \E p, q, r \in Places :
         /\ SummaryCell(p, "request_rate") = StrV(S_inf)
         /\ SummaryCell(q, "request_rate") = StrV(S_1)
         /\ "max_concurrency" \in DOMAIN Placed(r)
         /\ SummaryCell(r, "max_concurrency") = Null
    /\ \E p \in Places : RawCell(p, "request_throughput") = StrV(S_1)

\* both sheets are built and the Highlighter has returned
SheetsBuilt ==
    /\ ws_summary.made
    /\ Len(ws_summary.rows) = Len(sorted_records)
    /\ sorted_records # <<>> => (ws_raw.made /\ Len(ws_raw.rows) = Len(sorted_records))
    /\ hl >= Len(sorted_records)

(* C19: in one invocation the output file is written at most once and as the
   last step, after both sheets are built and the highlights applied; when an
   earlier step raises, neither the output directory nor the file is created;
   a failure to create the directory or to save the file ends the run with
   that error, without a retry and without a file. *)
C19_SavedOnceAtTheEnd ==
    /\ out.saves <= 1
    /\ out.file <=> (pc = "done" /\ out.saves = 1)
    /\ out.parent => (pc \in {"save", "done", "raised"} /\ SheetsBuilt)
    /\ (pc = "raised" /\ exc # "OSError") => (~out.parent /\ ~out.file)
    /\ exc = "OSError" => (pc = "raised" /\ ~out.file)

\* the directory was created and the save of a report of two records failed
C19_Witness ==
    /\ pc = "raised"
    /\ exc = "OSError"
    /\ out.parent
    /\ ~out.file
    /\ Len(sorted_records) = 2
    /\ SheetsBuilt

\* record x goes strictly before record y under the composite key: a smaller
\* model_id key, or the same one and a larger date key
SameKey(a, b) == ~PyLess(a, b) /\ ~PyLess(b, a)
CompositeBefore(x, y) ==
    \/ PyLess(ModelKey(objs[x]), ModelKey(objs[y]))
    \/ /\ SameKey(ModelKey(objs[x]), ModelKey(objs[y]))
       /\ PyLess(DateKey(objs[y]), DateKey(objs[x]))
CompositeTie(x, y) == ~CompositeBefore(x, y) /\ ~CompositeBefore(y, x)

(* C20: the Orderer's two-pass result is a permutation of its input, and it
   is the sequence a single stable sort by the composite key (model_id
   ascending, date descending) gives: no record stands after one that the
   composite key puts behind it, and records that tie on both keys keep their
   input order. *)
C20_TwoPassIsCompositeSort ==
    AfterSort =>
        /\ Len(sorted_records) = Len(records)
        /\ Range(sorted_records) = Range(records)
        /\ \A p, q \in Places :
               p < q =>
                   /\ ~CompositeBefore(sorted_records[q], sorted_records[p])
                   /\ CompositeTie(sorted_records[p], sorted_records[q]) =>
                          PlaceIn(records, sorted_records[p]) < PlaceIn(records, sorted_records[q])

\* four records were reordered: two of them tie on both keys, two share the
\* model and differ in date, two differ in model
C20_Witness ==
    /\ pc = "apply"
    /\ Len(records) = 4
    /\ sorted_records # records
    /\ \E x, y, z, w \in Range(records) :
         /\ x # y
         /\ CompositeTie(x, y)
         /\ SameKey(ModelKey(objs[x]), ModelKey(objs[z]))
         /\ PyLess(DateKey(objs[x]), DateKey(objs[z]))
         /\ PyLess(ModelKey(objs[x]), ModelKey(objs[w]))

(* C21: every highlight lies at sheet row i + 2, i being the 0-based list
   position of the newest (first) record of a model's group, and at the
   1-based position of a benchmark column in the summary schema: in the row
   written for that record, under that column's header, never on the header
   row nor outside the written rows and columns. *)
C21_HighlightCoordinates ==
    \A rc \in ws_summary.fills :
        /\ rc[1] \in 2..(Len(ws_summary.rows) + 1)
        /\ rc[2] \in 1..Len(ws_summary.header)
        /\ ws_summary.header[rc[2]] \in Range(BENCHMARK_COLUMNS)
        /\ rc[2] = PlaceIn(summary_columns, ws_summary.header[rc[2]])
        /\ \E i \in 0..(Len(sorted_records) - 1) :
               /\ rc[1] = i + 2
               /\ FirstOfModel(i + 1)
               /\ LaterOfModel(i + 1) # {}

\* the loadable entries in the order of their names: the i-th collected
\* record comes from the i-th of them
LoadableListing == SelectSeq(SortedListing(dir), Loadable)
Origin(i) == LoadableListing[i]
\* YYYYMMDD-HHMMSS: eight digits, a hyphen, six digits
TimestampForm(v) ==
    /\ v.k = "str"
    /\ Len(v.s) = 15
    /\ \A j \in 1..15 : IF j = 9 THEN v.s[j] = 45 ELSE v.s[j] \in 48..57
\* the records are collected and the Applicator has not yet run
BeforeApply == pc \in {"collect", "sort", "apply"}

(* C22: every collected record has source_file equal to the name of its
   origin file, whatever source_file the source JSON gave; its date is the
   source's date when the source has one, and otherwise the UTC time of the
   run in the form YYYYMMDD-HHMMSS; every other field of the source is in the
   record unchanged, and the record has no further field. *)
C22_CollectedRecord ==
    BeforeApply =>
        \A i \in 1..Len(records) :
            LET r == Collected(i)
                src == Origin(i).data
            IN /\ DOMAIN r = DOMAIN src \cup {"date", "source_file"}
               /\ r.source_file = StrV(Origin(i).name)
               /\ IF "date" \in DOMAIN src
                  THEN r.date = src.date
                  ELSE TimestampForm(r.date) /\ \E t \in 0..clock : r.date = StrV(FormatTs(t))
               /\ \A k \in DOMAIN src \ {"date", "source_file"} : r[k] = src[k]

\* two records collected one second apart from sources that gave no date and
\* a source_file of their own
C22_Witness ==
    /\ pc = "sort"
    /\ Len(records) = 2
    /\ clock = 1
    /\ Collected(1).date # Collected(2).date
    /\ \A i \in 1..2 :
         /\ "date" \notin DOMAIN Origin(i).data
         /\ "source_file" \in DOMAIN Origin(i).data
         /\ Origin(i).data.source_file # Collected(i).source_file

\* the summary sheet is written and formatted; the raw sheet is written
SummaryPopulated ==
    /\ ws_summary.made
    /\ Len(ws_summary.rows) = Len(sorted_records)
    /\ pc \notin {"write_summary", "format"}
RawPopulated == ws_raw.made /\ Len(ws_raw.rows) = Len(sorted_records)

(* C23, as stated: highlights are applied to the summary sheet only, never to
   the raw sheet, and only once both the summary sheet and the raw sheet are
   populated. *)
C23_HighlightAfterBothSheetsAsStated ==
    /\ ws_raw.fills = {}
    /\ ws_summary.fills # {} => (SummaryPopulated /\ RawPopulated)

(* C23: highlights are applied to the summary sheet only, never to the raw
   sheet, once the summary sheet is populated and formatted and before the
   raw sheet is created: the Highlighter has returned by the time the raw
   sheet is written. *)
C23_HighlightBeforeRawSheet ==
    /\ ws_raw.fills = {}
    /\ ws_summary.fills # {} => SummaryPopulated
    /\ pc = "highlight" => ~ws_raw.made
    /\ ws_raw.made => (RawPopulated /\ hl >= Len(sorted_records))

\* the Highlighter has filled a cell and walked the whole list, and there is
\* no raw sheet yet
C23_Witness ==
    /\ pc = "highlight"
    /\ ws_summary.fills # {}
    /\ hl = Len(sorted_records)
    /\ ~ws_raw.made

\* the fields the Applicator may write
MetadataFields == {"commit_sha", "build_id", "build_url"}
\* a step that leaves the records and both lists as they are
RecordsUntouched == objs' = objs /\ records' = records /\ sorted_records' = sorted_records
\* a step that changes nothing of the records but their metadata fields
OnlyMetadataWritten ==
    /\ records' = records
    /\ sorted_records' = sorted_records
    /\ DOMAIN objs' = DOMAIN objs
    /\ \A i \in DOMAIN objs :
           /\ DOMAIN objs'[i] \ MetadataFields = DOMAIN objs[i] \ MetadataFields
           /\ \A k \in DOMAIN objs[i] \ MetadataFields : objs'[i][k] = objs[i][k]
\* what a step of each component may do to the records
RecordFrame ==
    /\ pc = "sort" => (objs' = objs /\ records' = records)
    /\ pc = "apply" => OnlyMetadataWritten
    /\ pc \in {"write_summary", "format", "highlight", "raw", "ensure_dir", "save"} =>
           RecordsUntouched

(* C24: the records are changed by the Applicator alone, which writes only
   commit_sha, build_id and build_url and changes neither the number nor the
   order of the records nor any other field; the Orderer, the Highlighter and
   the Sheet Writer leave every field of every record as it is, and the
   Orderer leaves its input list in its original order. *)
C24_OnlyApplicatorMutates == [][RecordFrame]_vars

\* a saved report whose ordered list differs from the collected list, which
\* is still in collection order, and in which the Applicator replaced the
\* commit_sha a source JSON gave
C24_Witness ==
    /\ pc = "done"
    /\ Len(records) >= 3
    /\ records = [i \in 1..Len(objs) |-> i]
    /\ sorted_records # records
    /\ \E e \in dir :
         /\ "commit_sha" \in DOMAIN e.data
         /\ Placed(PlaceOf(e)).commit_sha # e.data.commit_sha

\* where the iteration of the outer loop that starts at position i ends
TurnEnd(i) == BlockEnd(sorted_records, objs, i, Get(RecordAt(sorted_records, objs, i), "model_id"))

(* C25: the Highlighter's walk terminates whatever scalar each model_id is:
   every iteration of the outer loop moves the position forward by at least
   one record, so that the runs are contiguous and every record is in
   exactly one of them. *)
C25_WalkAdvances ==
    (pc = "highlight" /\ hl < Len(sorted_records)) =>
        /\ TurnEnd(hl) > hl
        /\ TurnEnd(hl) <= Len(sorted_records)

\* what _send_mail did: its SMTP attempts, in order, and the places in the log
\* of its attempts and of its waits
MailLog == call.res.log
MailCall == call.fn = "_send_mail"
IsAttempt(e) == e \in {"ok", "fail"}
AttemptPlaces == {i \in 1..Len(MailLog) : IsAttempt(MailLog[i])}
FailedAttempts == {i \in 1..Len(MailLog) : MailLog[i] = "fail"}
MailOver == call.done
\* every wait stands between a failed attempt and, once the call is over or
\* has moved on, the next attempt; two attempts in a row never occur
WaitsOnlyBetweenAttempts ==
    /\ \A i \in 1..Len(MailLog) :
          MailLog[i] = "sleep" =>
             /\ i > 1
             /\ MailLog[i - 1] = "fail"
             /\ (i < Len(MailLog) => IsAttempt(MailLog[i + 1]))
             /\ (MailOver => i < Len(MailLog))
    /\ \A i \in 1..(Len(MailLog) - 1) :
          MailLog[i] = "fail" => MailLog[i + 1] = "sleep"
    /\ (Cardinality(FailedAttempts) = SMTP_RETRIES => MailLog[Len(MailLog)] = "fail")
    /\ call.res.waited = SMTP_RETRY_DELAY_SEC * Cardinality({i \in 1..Len(MailLog) : MailLog[i] = "sleep"})
RetriesAsClaimed ==
    /\ Cardinality(AttemptPlaces) <= SMTP_RETRIES
    /\ \A i \in 1..Len(MailLog) : MailLog[i] = "ok" => i = Len(MailLog)
    /\ WaitsOnlyBetweenAttempts
    /\ (call.a.dry_run => AttemptPlaces = {})
    /\ (call.res.at = "returned" /\ ~call.a.dry_run =>
           Len(MailLog) > 0 /\ MailLog[Len(MailLog)] = "ok")

\* C26 as stated: when not in dry-run, _send_mail makes at most 3 SMTP attempts
\* in sequence, none after the first that succeeds, waits between two
\* consecutive attempts but not after the last failed one, and exits with a
\* failure only after all 3 attempts have failed; in dry-run it makes no SMTP
\* attempt at all.
C26_RetriesAsStated ==
    MailCall =>
       /\ RetriesAsClaimed
       /\ (call.res.exit # "" => Cardinality(FailedAttempts) = SMTP_RETRIES)

\* C26, amended: all of the above holds of the sending loop, where the failing
\* exit comes only after all 3 attempts have failed; but _send_mail also exits
\* with a failure before any SMTP attempt, in dry-run or not, when a required
\* environment variable is missing or the recipient list is empty, and raises
\* before any attempt when not in dry-run and SMTP_PORT is no number.
C26_RetriesOnceConfigured ==
    MailCall =>
       /\ RetriesAsClaimed
       /\ (call.res.exit # "" =>
             \/ Cardinality(FailedAttempts) = SMTP_RETRIES /\ call.a.env = "ok" /\ ~call.a.dry_run
             \/ MailLog = <<>> /\ call.a.env \in {"missing", "no_recipients"}
             \/ MailLog = <<>> /\ call.a.env = "bad_port" /\ ~call.a.dry_run)
       /\ (call.a.env \in {"missing", "no_recipients"} /\ MailOver => call.res.exit = "SystemExit")
       /\ (call.a.env = "ok" /\ Cardinality(FailedAttempts) = SMTP_RETRIES /\ MailOver =>
             call.res.exit = "SystemExit")

\* all three attempts failed, with a wait after the first and after the second
\* only, and the call exited with a failure
C26_Witness ==
    /\ MailCall
    /\ MailOver
    /\ MailLog = <<"fail", "sleep", "fail", "sleep", "fail">>
    /\ call.res.exit = "SystemExit"

====
